---- MODULE Spec2Model ----
(***************************************************************************)
(* A model of conda's package_index (src/conda/package_index.py): the      *)
(* index store, the lazily cached dependency and reverse dependency        *)
(* graphs, the depth-bounded closure loops of get_deps / get_reverse_deps  *)
(* and the two-phase find_compatible_packages.                             *)
(*                                                                         *)
(* Python values are modelled as follows.                                  *)
(*   - a package object is its identity, a number of Universe; its fields  *)
(*     are name(p), vstring(p), build(p), requires[p] and is_meta[p];      *)
(*   - a string that the code builds by formatting is the sequence of its  *)
(*     pieces, so that "%s-%s-%s.tar.bz2" and canonical_name+'.tar.bz2'    *)
(*     are computed, not assumed;                                          *)
(*   - an optional value is a sequence of length 0 or 1: <<>> is None and  *)
(*     <<v>> is the value v, so that None and an empty dict are different  *)
(*     values that are both falsy;                                         *)
(*   - a dict is a function, its keys the function's DOMAIN.               *)
(***************************************************************************)
EXTENDS Integers, FiniteSets, Sequences, TLC

\* Number of package identities the model draws an index from.
MaxPkgs == 3
\* Largest max_depth argument passed to get_deps / get_reverse_deps.
MaxDepth == 2
\* The counters of _compute_* runs saturate at this value.
MaxCalls == 2
\* Largest number of packages passed to get_deps / get_reverse_deps.
MaxInput == 2

\* Callers that read the graphs concurrently, and the packages of the
\* indexes they read.
NumThreads == 2
ConcPkgs == 2
\* Packages of the indexes on which termination is checked.
LoopPkgs == 2

Letters == <<"a", "b", "c", "d", "e", "f", "g", "h">>
Universe == 1..MaxPkgs
Names == {Letters[i] : i \in Universe}
Depths == 0..MaxDepth

\* Sets of packages a caller passes: packages of the index or not.
InputSets == {S \in SUBSET Universe : Cardinality(S) <= MaxInput}

\* F(v), with v evaluated once however often F uses its argument.
Apply(F(_), v) == CHOOSE r \in {F(x) : x \in {v}} : TRUE

Min(a, b) == IF a < b THEN a ELSE b

(***************************************************************************)
(* The package and requirement entities (conda.package, conda.requirement, *)
(* conda.constraints), which package_index.py only imports.                *)
(***************************************************************************)
name(p) == Letters[p]
vstring(p) == "1"
build(p) == "0"

\* A requirement: a target name, an optional version and an optional exact
\* build string ("" when absent, which Python tests as falsy).
Req(n, v, b) == [name |-> n, version |-> v, build |-> b]

\* pkg.matches(satisfies(req)): the name agrees, and so do the version and
\* the build when the requirement states them.
Matches(p, req) ==
    /\ name(p) = req.name
    /\ req.version = "" \/ req.version = vstring(p)
    /\ req.build = "" \/ req.build = build(p)

\* "%s-%s-%s.tar.bz2" % (name, vstring, build)
FormatFilename(n, v, b) == <<n, "-", v, "-", b, ".tar.bz2">>
filename(p) == FormatFilename(name(p), vstring(p), build(p))
\* The canonical name of a package: its filename without the archive suffix.
canonical_name(p) == <<name(p), "-", vstring(p), "-", build(p)>>

\* Requirements a package of the index may declare, and requirements and
\* constraints a caller may pass.
DeclReqs == {Req(n, "", "") : n \in Names}
PinnedReqs == {Req(Letters[1], "1", b) : b \in {"0", "1"}}
UserReqs == DeclReqs \cup PinnedReqs

VARIABLES
    pkgs,           \* self.pkgs: the set of packages of the index
    pkg_filenames,  \* self.pkg_filenames: filename -> package
    requires,       \* pkg.requires of every package of the index
    is_meta,        \* pkg.is_meta of every package of the index
    _deps,          \* self._deps: None or the cached dependency graph
    _rdeps,         \* self._rdeps: None or the cached reverse graph
    deps_runs,      \* how often _compute_dependencies has run (saturating)
    rdeps_runs,     \* how often _compute_reverse_dependencies has run
    call,           \* the public operation called last, with its arguments
    ret,            \* what that call returned or raised
    frame,          \* the locals of a running get_deps / get_reverse_deps
    th              \* the concurrent callers: position and locals of each

vars == <<pkgs, pkg_filenames, requires, is_meta, _deps, _rdeps,
          deps_runs, rdeps_runs, call, ret, frame, th>>
sequential == <<call, ret, frame>>
Threads == 1..NumThreads
index == <<pkgs, pkg_filenames, requires, is_meta>>
cachevars == <<_deps, _rdeps, deps_runs, rdeps_runs>>

(***************************************************************************)
(* __init__: the index after construction from info, a mapping from the    *)
(* filename of each package to its metadata.  A package declares at most   *)
(* one requirement, and only the first package may be a meta package (the  *)
(* indexes are closed under renaming packages).                            *)
(***************************************************************************)
InitIndex(maxpkgs) ==
    /\ \E n \in 0..maxpkgs : pkgs = 1..n
    /\ pkg_filenames = [f \in {filename(p) : p \in pkgs} |->
                            CHOOSE p \in pkgs : filename(p) = f]
    /\ requires \in [pkgs -> {{}} \cup {{r} : r \in DeclReqs}]
    /\ is_meta \in {m \in [pkgs -> BOOLEAN] : \A p \in pkgs : m[p] => p = 1}
    /\ _deps = <<>>
    /\ _rdeps = <<>>
    /\ deps_runs = 0
    /\ rdeps_runs = 0
    /\ call = [op |-> "none"]
    /\ ret = [status |-> "none"]
    /\ frame = <<>>
    /\ th = [t \in Threads |-> [pc |-> "idle"]]

Init == InitIndex(MaxPkgs)

\* A caller calls a public operation when it is not inside another one (the
\* code is synchronous), and takes its result before it calls the next.
Idle == ret.status = "none"

Discard ==
    /\ ret.status \in {"ok", "KeyError"}
    /\ call' = [op |-> "none"]
    /\ ret' = [status |-> "none"]
    /\ frame' = <<>>
    /\ UNCHANGED <<index, cachevars, th>>

(***************************************************************************)
(* Index store                                                             *)
(***************************************************************************)
\* find_matches with the candidates tested for truth ("if not pkgs:").
find_matches_falsy(constraint, cands) ==
    LET falsy == cands = <<>> \/ cands[1] = {}
        search == IF falsy THEN pkgs ELSE cands[1]
    IN  {p \in search : Matches(p, constraint)}

\* find_matches(constraint, pkgs=None).  "not pkgs is not None" parses as
\* not (pkgs is not None).
find_matches(constraint, cands) ==
    LET is_not_none == cands # <<>>
        search == IF ~is_not_none THEN pkgs ELSE cands[1]
    IN  {p \in search : Matches(p, constraint)}

\* lookup_from_filename: self.pkg_filenames[pkg_filename], a KeyError when
\* the key is absent.
lookup_from_filename(f) ==
    IF f \in DOMAIN pkg_filenames
    THEN [status |-> "ok", val |-> pkg_filenames[f]]
    ELSE [status |-> "KeyError"]

lookup_from_canonical_name(cn) == lookup_from_filename(cn \o <<".tar.bz2">>)

lookup_from_name(n) == {p \in pkgs : name(p) = n}

package_names == {name(p) : p \in pkgs}

(***************************************************************************)
(* Dependency graph builders                                               *)
(***************************************************************************)
\* "for req in pkg.requires: deps[pkg] |= self.find_matches(satisfies(req))":
\* the set deps[pkg] after the loop, which starts from set().
MatchAll(reqs) ==
    LET loop[todo \in SUBSET reqs] ==
            IF todo = {} THEN {}
            ELSE LET req == CHOOSE r \in todo : TRUE
                 IN  loop[todo \ {req}] \cup find_matches(req, <<>>)
    IN  loop[reqs]

\* The body of "for pkg in self.pkgs" in _compute_dependencies.
AddDeps(deps, pkg) ==
    IF is_meta[pkg] THEN deps
    ELSE deps @@ (pkg :> MatchAll(requires[pkg]))

\* _compute_dependencies: the dict after the loop over self.pkgs; a set and
\* a dict iterate in some order, here the order CHOOSE fixes.
_compute_dependencies ==
    LET loop[todo \in SUBSET pkgs] ==
            IF todo = {} THEN <<>>
            ELSE LET pkg == CHOOSE p \in todo : TRUE
                 IN  AddDeps(loop[todo \ {pkg}], pkg)
    IN  loop[pkgs]

\* AddRdep with the set replaced, not extended ("rdeps[dep] = set([pkg])").
AddRdepOverwrite(rdeps, pkg, dep) ==
    IF dep \notin DOMAIN rdeps
    THEN rdeps @@ (dep :> {pkg})
    ELSE [rdeps EXCEPT ![dep] = {pkg}]

\* The body of "for dep in deps" in _compute_reverse_dependencies.
AddRdep(rdeps, pkg, dep) ==
    IF dep \notin DOMAIN rdeps
    THEN rdeps @@ (dep :> {pkg})
    ELSE [rdeps EXCEPT ![dep] = @ \cup {pkg}]

\* The (pkg, dep) pairs that the two loops over deps.items() visit.
Items(deps) == {e \in (DOMAIN deps) \X Universe : e[2] \in deps[e[1]]}

\* _compute_reverse_dependencies, given the graph that self.deps returned.
_compute_reverse_dependencies(deps) ==
    LET loop[todo \in SUBSET Items(deps)] ==
            IF todo = {} THEN <<>>
            ELSE LET e == CHOOSE x \in todo : TRUE
                 IN  Apply(LAMBDA r : AddRdep(r, e[1], e[2]), loop[todo \ {e}])
    IN  loop[Items(deps)]

(***************************************************************************)
(* The cached graphs.  A cache state c holds the two cache fields and the  *)
(* two run counters; an accessor maps the cache state before a read to the *)
(* cache state after it, whose field is the value the read returns.        *)
(***************************************************************************)
Cache == [deps |-> _deps, rdeps |-> _rdeps, nd |-> deps_runs, nr |-> rdeps_runs]

SetCache(c) ==
    /\ _deps' = c.deps
    /\ _rdeps' = c.rdeps
    /\ deps_runs' = c.nd
    /\ rdeps_runs' = c.nr

\* Python's "not x" for x None or a dict: None and the empty dict are falsy.
Falsy(x) == x = <<>> \/ DOMAIN x[1] = {}

\* The deps property.
deps(c) ==
    IF Falsy(c.deps)
    THEN [c EXCEPT !.deps = <<_compute_dependencies>>,
                   !.nd = Min(@ + 1, MaxCalls)]
    ELSE c

\* The rdeps property; _compute_reverse_dependencies reads self.deps once.
rdeps(c) ==
    IF Falsy(c.rdeps)
    THEN Apply(LAMBDA c1 :
                 [c1 EXCEPT !.rdeps = <<_compute_reverse_dependencies(c1.deps[1])>>,
                            !.nr = Min(@ + 1, MaxCalls)],
               deps(c))
    ELSE c

\* A read of the graph g ("deps" or "rdeps") and the dict it returns.
Read(g, c) == IF g = "deps" THEN deps(c) ELSE rdeps(c)
Graph(g, c) == IF g = "deps" THEN c.deps[1] ELSE c.rdeps[1]

\* k reads in a row, as a loop that evaluates self.deps in its body makes.
Reads(g, c, k) ==
    LET after[i \in 0..k] ==
            IF i = 0 THEN c
            ELSE Apply(LAMBDA x : Read(g, x), after[i - 1])
    IN  after[k]

\* dict.get(pkg, set())
Get(d, p) == IF p \in DOMAIN d THEN d[p] ELSE {}

\* A caller reads index.deps.
ReadDeps ==
    /\ Idle
    /\ SetCache(deps(Cache))
    /\ call' = [op |-> "deps"]
    /\ ret' = [status |-> "ok", val |-> deps(Cache).deps[1]]
    /\ UNCHANGED <<index, frame, th>>

\* A caller reads index.rdeps.
ReadRdeps ==
    /\ Idle
    /\ SetCache(rdeps(Cache))
    /\ call' = [op |-> "rdeps"]
    /\ ret' = [status |-> "ok", val |-> rdeps(Cache).rdeps[1]]
    /\ UNCHANGED <<index, frame, th>>

\* find_compatible_requirements(pkgs): self.rdeps is read once for every
\* package of pkgs.  Its result tests a package against the keys of rdeps as
\* if they were requirements, which the package entity decides: the result
\* is not modelled, the reads of the cache are.
FindCompatibleRequirements ==
    \E S \in InputSets :
        /\ Idle
        /\ SetCache(Reads("rdeps", Cache, Cardinality(S)))
        /\ call' = [op |-> "find_compatible_requirements", pkgs |-> S]
        /\ ret' = [status |-> "ok"]
        /\ UNCHANGED <<index, frame, th>>

NextCache == ReadDeps \/ ReadRdeps \/ FindCompatibleRequirements \/ Discard

SpecCache == Init /\ [][NextCache]_vars

(***************************************************************************)
(* Transitive closure: get_deps and get_reverse_deps run the same loop,    *)
(* one over self.deps and one over self.rdeps.  The locals of a call are   *)
(* the frame [pkgs, deps, last_deps, iterations, heap].  deps names a set  *)
(* object of the heap, which "deps |= ..." updates in place; "last_deps =  *)
(* deps" binds last_deps to that same object, it does not copy it.         *)
(***************************************************************************)
\* NewFrame with the result seeded with the input ("deps = set(pkgs)").
NewFrameSeeded(S) ==
    [pkgs |-> S, deps |-> "set1", last_deps |-> <<>>, iterations |-> 0,
     heap |-> [set1 |-> S]]

\* Lines 145-148 (177-180): the locals before the loop.
NewFrame(S) ==
    [pkgs |-> S, deps |-> "set1", last_deps |-> <<>>, iterations |-> 0,
     heap |-> [set1 |-> {}]]

\* LoopBreak one round late ("iterations > max_depth").
LoopBreakLate(st, max_depth) == max_depth # 0 /\ st.iterations > max_depth

\* "if max_depth and iterations >= max_depth: break"
LoopBreak(st, max_depth) == max_depth # 0 /\ st.iterations >= max_depth

\* "for pkg in pkgs: deps |= self.deps.get(pkg, set())": the frame after the
\* for loop, c being the cache state before it ...
Expand(g, st, c) ==
    [st EXCEPT !.heap[st.deps] =
        @ \cup UNION {Get(d, pkg) : pkg \in st.pkgs, d \in {Graph(g, Read(g, c))}}]

\* ... and the cache state after it: one read for every package of pkgs.
ExpandReads(g, st, c) == Reads(g, c, Cardinality(st.pkgs))

\* "deps == last_deps": None equals no set, and a set equals itself.
SameAsLast(st) ==
    IF st.last_deps = <<>> THEN FALSE
    ELSE st.heap[st.deps] = st.heap[st.last_deps[1]]

\* Advance without its last two statements.
AdvanceFrontierOnly(st) == [st EXCEPT !.pkgs = st.heap[st.deps] \ st.pkgs]

\* "pkgs = deps - pkgs; last_deps = deps; iterations += 1"
Advance(st) ==
    [st EXCEPT !.pkgs = st.heap[st.deps] \ st.pkgs,
               !.last_deps = <<st.deps>>,
               !.iterations = @ + 1]

\* The graph a call walks.
GraphOf(op) == IF op = "get_deps" THEN "deps" ELSE "rdeps"

\* get_deps(pkgs, max_depth) is called.
GetDepsCall ==
    \E S \in InputSets, d \in Depths :
        /\ Idle
        /\ call' = [op |-> "get_deps", pkgs |-> S, max_depth |-> d]
        /\ frame' = NewFrame(S)
        /\ ret' = [status |-> "running"]
        /\ UNCHANGED <<index, cachevars, th>>

\* get_reverse_deps(pkgs, max_depth) is called.
GetReverseDepsCall ==
    \E S \in InputSets, d \in Depths :
        /\ Idle
        /\ call' = [op |-> "get_reverse_deps", pkgs |-> S, max_depth |-> d]
        /\ frame' = NewFrame(S)
        /\ ret' = [status |-> "running"]
        /\ UNCHANGED <<index, cachevars, th>>

\* "return deps" with the frame st.
Return(st) ==
    /\ frame' = st
    /\ ret' = [status |-> "ok", val |-> st.heap[st.deps]]

\* One pass through "while True:" of the running call.
Round ==
    /\ ret.status = "running"
    /\ IF LoopBreak(frame, call.max_depth)
       THEN Return(frame) /\ UNCHANGED cachevars
       ELSE \E st1 \in {Expand(GraphOf(call.op), frame, Cache)},
               c1 \in {ExpandReads(GraphOf(call.op), frame, Cache)} :
                /\ SetCache(c1)
                /\ IF SameAsLast(st1)
                   THEN Return(st1)
                   ELSE frame' = Advance(st1) /\ UNCHANGED ret
    /\ UNCHANGED <<index, call, th>>

NextClosure == GetDepsCall \/ GetReverseDepsCall \/ Round \/ Discard

SpecClosure == Init /\ [][NextClosure]_vars

\* The code is sequential: a running call takes its next step.
SpecLoop == InitIndex(LoopPkgs) /\ [][NextClosure]_vars /\ WF_vars(Round)

(***************************************************************************)
(* Compatibility resolver                                                  *)
(***************************************************************************)
\* The first loop of find_compatible_packages: the candidates of reqs, or
\* the KeyError that lookup_from_filename raises for a pinned requirement.
Gather(reqs) ==
    LET loop[todo \in SUBSET reqs] ==
            IF todo = {} THEN [status |-> "ok", val |-> {}]
            ELSE LET req == CHOOSE r \in todo : TRUE
                     sofar == loop[todo \ {req}]
                     found == lookup_from_filename(
                         FormatFilename(req.name, req.version, req.build))
                 IN  IF sofar.status # "ok" THEN sofar
                     ELSE IF req.build # ""
                     THEN IF found.status # "ok" THEN found
                          ELSE [sofar EXCEPT !.val = @ \cup {found.val}]
                     ELSE [sofar EXCEPT !.val = @ \cup find_matches(req, <<>>)]
    IN  loop[reqs]

\* Inconsistent with the checker asked about pkg.requires alone.
InconsistentOwnOnly(reqs, pkg, flagged) == requires[pkg] \in flagged

\* "inconsistent = find_inconsistent_specs(reqs | pkg.requires)", tested for
\* truth.  The checker is external: flagged is the set of requirement sets
\* for which it reports a conflict.
Inconsistent(reqs, pkg, flagged) == (reqs \cup requires[pkg]) \in flagged

\* The second loop: the candidates to remove.
ToRemove(reqs, cands, flagged) ==
    {pkg \in cands : Inconsistent(reqs, pkg, flagged)}

find_compatible_packages(reqs, flagged) ==
    LET gathered == Gather(reqs)
    IN  IF gathered.status # "ok" THEN gathered
        ELSE [status |-> "ok",
              val |-> gathered.val \ ToRemove(reqs, gathered.val, flagged)]

\* Requirement sets a caller passes, and what the checker may be asked.
ReqSets == {R \in SUBSET UserReqs : Cardinality(R) <= MaxInput}
CheckerArgs(reqs) == {reqs \cup requires[p] : p \in pkgs}

\* Filenames and canonical names a caller passes.
KnownFiles == {FormatFilename(name(p), vstring(p), b) : p \in Universe, b \in {"0", "1"}}
KnownCanonicals == {SubSeq(f, 1, Len(f) - 1) : f \in KnownFiles}

LookupFromFilename ==
    \E f \in KnownFiles :
        /\ Idle
        /\ call' = [op |-> "lookup_from_filename", key |-> f]
        /\ ret' = lookup_from_filename(f)
        /\ UNCHANGED <<index, cachevars, frame, th>>

LookupFromCanonicalName ==
    \E cn \in KnownCanonicals :
        /\ Idle
        /\ call' = [op |-> "lookup_from_canonical_name", key |-> cn]
        /\ ret' = lookup_from_canonical_name(cn)
        /\ UNCHANGED <<index, cachevars, frame, th>>

LookupFromName ==
    \E n \in Names :
        /\ Idle
        /\ call' = [op |-> "lookup_from_name", key |-> n]
        /\ ret' = [status |-> "ok", val |-> lookup_from_name(n)]
        /\ UNCHANGED <<index, cachevars, frame, th>>

PackageNames ==
    /\ Idle
    /\ call' = [op |-> "package_names"]
    /\ ret' = [status |-> "ok", val |-> package_names]
    /\ UNCHANGED <<index, cachevars, frame, th>>

\* find_matches(constraint) and find_matches(constraint, pkgs).
FindMatches ==
    \E c \in UserReqs, cands \in {<<>>} \cup {<<C>> : C \in InputSets} :
        /\ Idle
        /\ call' = [op |-> "find_matches", constraint |-> c, pkgs |-> cands]
        /\ ret' = [status |-> "ok", val |-> find_matches(c, cands)]
        /\ UNCHANGED <<index, cachevars, frame, th>>

FindCompatiblePackages ==
    \E reqs \in ReqSets :
        \E flagged \in SUBSET CheckerArgs(reqs) :
            /\ Idle
            /\ call' = [op |-> "find_compatible_packages", reqs |-> reqs,
                        flagged |-> flagged]
            /\ ret' = find_compatible_packages(reqs, flagged)
            /\ UNCHANGED <<index, cachevars, frame, th>>

NextStore ==
    \/ LookupFromFilename
    \/ LookupFromCanonicalName
    \/ LookupFromName
    \/ PackageNames
    \/ FindMatches
    \/ FindCompatiblePackages
    \/ Discard

SpecStore == Init /\ [][NextStore]_vars

(***************************************************************************)
(* Concurrent first reads of deps and rdeps.  Each caller reads one of the *)
(* two properties; a step is one test, one pass through a loop body, one   *)
(* assignment to a cache field or one return.  The dict under construction *)
(* is a local of _compute_dependencies / _compute_reverse_dependencies;    *)
(* both iterate the same collection object, hence in the same order.       *)
(***************************************************************************)
\* Thread t enters the deps property, for caller prop ("deps" when the
\* caller reads deps, "rdeps" when _compute_reverse_dependencies does).
EnterDeps(t, prop) == th' = [th EXCEPT ![t] = [pc |-> "deps_test", prop |-> prop]]

CallDeps(t) ==
    /\ th[t].pc = "idle"
    /\ EnterDeps(t, "deps")
    /\ UNCHANGED <<index, cachevars, sequential>>

CallRdeps(t) ==
    /\ th[t].pc = "idle"
    /\ th' = [th EXCEPT ![t] = [pc |-> "rdeps_test", prop |-> "rdeps"]]
    /\ UNCHANGED <<index, cachevars, sequential>>

\* "if not self._deps:" and, when it holds, the entry of
\* _compute_dependencies: "deps = dict()".
DepsTest(t) ==
    /\ th[t].pc = "deps_test"
    /\ IF Falsy(_deps)
       THEN /\ th' = [th EXCEPT ![t] = [pc |-> "deps_loop", prop |-> th[t].prop,
                                        deps |-> <<>>, todo |-> pkgs]]
            /\ deps_runs' = Min(deps_runs + 1, MaxCalls)
       ELSE /\ th' = [th EXCEPT ![t].pc = "deps_return"]
            /\ UNCHANGED deps_runs
    /\ UNCHANGED <<index, _deps, _rdeps, rdeps_runs, sequential>>

\* One pass through "for pkg in self.pkgs:".
DepsStep(t) ==
    /\ th[t].pc = "deps_loop"
    /\ th[t].todo # {}
    /\ LET pkg == CHOOSE p \in th[t].todo : TRUE
       IN  th' = [th EXCEPT ![t].deps = AddDeps(@, pkg), ![t].todo = @ \ {pkg}]
    /\ UNCHANGED <<index, cachevars, sequential>>

\* A loop that assigns as soon as it is entered: the dict would be stored
\* in the cache field before it is complete.
LoopEntered(todo) == TRUE

\* The loop over todo has ended: only then does _compute_* return its dict.
LoopDone(todo) == todo = {}

\* "return deps" and "self._deps = ..."
DepsStore(t) ==
    /\ th[t].pc = "deps_loop"
    /\ LoopDone(th[t].todo)
    /\ _deps' = <<th[t].deps>>
    /\ th' = [th EXCEPT ![t].pc = "deps_return"]
    /\ UNCHANGED <<index, _rdeps, deps_runs, rdeps_runs, sequential>>

\* "return self._deps": to the caller, or to _compute_reverse_dependencies,
\* which starts "for pkg, deps in self.deps.items():" with "rdeps = dict()".
DepsReturn(t) ==
    /\ th[t].pc = "deps_return"
    /\ IF th[t].prop = "deps"
       THEN th' = [th EXCEPT ![t] = [pc |-> "done", prop |-> "deps",
                                    val |-> _deps[1]]]
       ELSE th' = [th EXCEPT ![t] = [pc |-> "rdeps_loop", prop |-> "rdeps",
                                    got |-> _deps[1], rdeps |-> <<>>,
                                    todo |-> Items(_deps[1])]]
    /\ UNCHANGED <<index, cachevars, sequential>>

\* "if not self._rdeps:" and, when it holds, the read of self.deps.
RdepsTest(t) ==
    /\ th[t].pc = "rdeps_test"
    /\ IF Falsy(_rdeps)
       THEN /\ EnterDeps(t, "rdeps")
            /\ rdeps_runs' = Min(rdeps_runs + 1, MaxCalls)
       ELSE /\ th' = [th EXCEPT ![t].pc = "rdeps_return"]
            /\ UNCHANGED rdeps_runs
    /\ UNCHANGED <<index, _deps, _rdeps, deps_runs, sequential>>

\* One pass through "for dep in deps:".
RdepsStep(t) ==
    /\ th[t].pc = "rdeps_loop"
    /\ th[t].todo # {}
    /\ LET e == CHOOSE x \in th[t].todo : TRUE
       IN  th' = [th EXCEPT ![t].rdeps = AddRdep(@, e[1], e[2]),
                           ![t].todo = @ \ {e}]
    /\ UNCHANGED <<index, cachevars, sequential>>

\* "return rdeps" and "self._rdeps = ..."
RdepsStore(t) ==
    /\ th[t].pc = "rdeps_loop"
    /\ LoopDone(th[t].todo)
    /\ _rdeps' = <<th[t].rdeps>>
    /\ th' = [th EXCEPT ![t].pc = "rdeps_return"]
    /\ UNCHANGED <<index, _deps, deps_runs, rdeps_runs, sequential>>

\* "return self._rdeps"
RdepsReturn(t) ==
    /\ th[t].pc = "rdeps_return"
    /\ th' = [th EXCEPT ![t] = [pc |-> "done", prop |-> "rdeps",
                                val |-> _rdeps[1]]]
    /\ UNCHANGED <<index, cachevars, sequential>>

NextConc ==
    \E t \in Threads :
        \/ CallDeps(t)
        \/ CallRdeps(t)
        \/ DepsTest(t)
        \/ DepsStep(t)
        \/ DepsStore(t)
        \/ DepsReturn(t)
        \/ RdepsTest(t)
        \/ RdepsStep(t)
        \/ RdepsStore(t)
        \/ RdepsReturn(t)

SpecConc == InitIndex(ConcPkgs) /\ [][NextConc]_vars

(***************************************************************************)
(* The dependency relation as the specification states it, from the        *)
(* packages' requirements alone: what the claims below compare the code's  *)
(* graphs and results with.                                                *)
(***************************************************************************)
\* deps.get(p, {}): meta and unknown packages have no entry.
DepsOf(p) ==
    IF p \in pkgs /\ ~is_meta[p]
    THEN {q \in pkgs : \E r \in requires[p] : Matches(q, r)}
    ELSE {}

\* rdeps.get(d, {})
RdepsOf(d) == {p \in pkgs : d \in DepsOf(p)}

\* The packages at the end of a path of 1..k rdeps edges from S.
RdepsWithin(S, k) ==
    LET level[i \in 1..k] ==
            IF i = 1 THEN UNION {RdepsOf(p) : p \in S}
            ELSE UNION {RdepsOf(q) : q \in level[i - 1]}
    IN  UNION {level[i] : i \in 1..k}

Returned(op) == call.op = op /\ ret.status = "ok"

\* C1: the result R of get_deps(S, max_depth=0) is a fixed point: for every
\* p in R, deps.get(p, {}) is a subset of R.
C1_FixedPoint ==
    (Returned("get_deps") /\ call.max_depth = 0)
        => \A p \in ret.val : DepsOf(p) \subseteq ret.val

\* C2: _compute_dependencies and _compute_reverse_dependencies each run at
\* most once on an index, whatever is read and however often.
C2_ComputedOnce == deps_runs <= 1 /\ rdeps_runs <= 1

\* C3: once both graphs are cached, d is in deps[p] exactly if p is in
\* rdeps[d] (a missing key being the empty set), the keys of rdeps are the
\* packages in some value of deps, and no key of rdeps maps to the empty set.
C3_ExactInverse ==
    (_deps # <<>> /\ _rdeps # <<>>) =>
        /\ \A p \in Universe, d \in Universe :
               d \in Get(_deps[1], p) <=> p \in Get(_rdeps[1], d)
        /\ DOMAIN _rdeps[1] = UNION {_deps[1][p] : p \in DOMAIN _deps[1]}
        /\ \A d \in DOMAIN _rdeps[1] : _rdeps[1][d] # {}

C3_Witness ==
    /\ _deps # <<>> /\ _rdeps # <<>>
    /\ \E d \in DOMAIN _rdeps[1] : Cardinality(_rdeps[1][d]) >= 2
    /\ \E p \in pkgs : p \notin DOMAIN _rdeps[1]
    /\ \E p \in pkgs : p \notin DOMAIN _deps[1]

\* The phase-1 candidates of a requirement set, as the specification states
\* them: the package whose filename a pinned requirement spells, and the
\* packages that match an unpinned one.
Phase1(reqs) ==
    {p \in pkgs : \E r \in reqs :
        IF r.build # ""
        THEN <<name(p), vstring(p), build(p)>> = <<r.name, r.version, r.build>>
        ELSE Matches(p, r)}

\* C4: find_compatible_packages(R) returns no package p for which the
\* checker reports a conflict in R \cup p.requires, and returns only phase-1
\* candidates of R.
C4_NoInconsistentReturned ==
    Returned("find_compatible_packages") =>
        \A p \in ret.val :
            /\ (call.reqs \cup requires[p]) \notin call.flagged
            /\ p \in Phase1(call.reqs)

C4_Witness ==
    /\ Returned("find_compatible_packages")
    /\ ret.val # {}
    /\ \E p \in Phase1(call.reqs) : p \notin ret.val
    /\ \E r \in call.reqs : r.build # ""
    /\ \E r \in call.reqs : r.build = ""

\* C5: only lookup_from_filename and lookup_from_canonical_name fail with
\* NotFound (Python's KeyError); every other operation returns.
C5_OnlyLookupsFail ==
    ret.status = "KeyError" =>
        call.op \in {"lookup_from_filename", "lookup_from_canonical_name"}

\* C6: find_matches(constraint) returns exactly the matching packages of the
\* whole collection; find_matches(constraint, C) returns exactly the matching
\* members of C, so nothing for an empty C.
C6_FindMatchesExact ==
    Returned("find_matches") =>
        IF call.pkgs = <<>>
        THEN ret.val = {p \in pkgs : Matches(p, call.constraint)}
        ELSE ret.val = {p \in call.pkgs[1] : Matches(p, call.constraint)}

C6_Witness ==
    /\ Returned("find_matches")
    /\ call.pkgs = <<{}>>
    /\ ret.val = {}
    /\ \E p \in pkgs : Matches(p, call.constraint)

\* C7: get_deps(S, max_depth=1) is the union over p in S of deps.get(p, {}).
C7_OneHop ==
    (Returned("get_deps") /\ call.max_depth = 1)
        => ret.val = UNION {DepsOf(p) : p \in call.pkgs}

C7_Witness ==
    /\ Returned("get_deps") /\ call.max_depth = 1
    /\ Cardinality(call.pkgs) = 2
    /\ ret.val # {}
    /\ \E p \in call.pkgs : p \notin pkgs \/ is_meta[p]
    /\ \E p \in ret.val : ~(DepsOf(p) \subseteq ret.val)

\* C8: a running get_deps or get_reverse_deps returns, and until it does the
\* set it accumulates only grows.
C8_TerminatesGrowing ==
    /\ (ret.status = "running") ~> (ret.status = "ok")
    /\ [][ret.status = "running" =>
             frame.heap[frame.deps] \subseteq frame'.heap[frame'.deps]]_vars

\* A call with max_depth 0 has returned from a graph with a cycle through
\* its input.
C8_Witness ==
    /\ ret.status = "ok"
    /\ call.op \in {"get_deps", "get_reverse_deps"}
    /\ call.max_depth = 0
    /\ call.pkgs \cap ret.val # {}
    /\ frame.iterations >= 1

\* C9: every package get_reverse_deps(S, k) returns is at the end of a path
\* of at least one rdeps edge from a member of S, and of at most k edges when
\* k > 0; so a member of S is returned only if it is reached this way.
C9_ReverseReachable ==
    Returned("get_reverse_deps") =>
        ret.val \subseteq
            RdepsWithin(call.pkgs,
                        IF call.max_depth > 0 THEN call.max_depth ELSE MaxPkgs)

C9_Witness ==
    /\ Returned("get_reverse_deps") /\ call.max_depth = 1
    /\ ret.val # {}
    /\ \E p \in call.pkgs : p \in pkgs /\ p \notin ret.val
    /\ \E q \in ret.val : ~(RdepsOf(q) \subseteq ret.val)

\* C10: whatever the interleaving of concurrent first reads, each cache
\* field is None or the complete graph, and every graph a reader is handed
\* is the complete graph: the one a single-threaded computation yields.
C10_NeverPartial ==
    LET full == _compute_dependencies
        rfull == _compute_reverse_dependencies(full)
    IN  /\ _deps # <<>> => _deps[1] = full
        /\ _rdeps # <<>> => _rdeps[1] = rfull
        /\ \A t \in Threads :
               /\ th[t].pc = "rdeps_loop" => th[t].got = full
               /\ th[t].pc = "done" =>
                      th[t].val = IF th[t].prop = "deps" THEN full ELSE rfull

\* Two callers have raced: both computed a non-empty graph, and both have
\* returned.
C10_Witness ==
    /\ deps_runs = 2
    /\ DOMAIN _compute_reverse_dependencies(_compute_dependencies) # {}
    /\ \A t \in Threads : th[t].pc = "done"
    /\ \E t \in Threads : th[t].prop = "rdeps"

====
